---- MODULE Spec2Model ----
(***************************************************************************)
(* Prebid.js bid monitoring and Google Ad Manager pricing-rule adjuster.   *)
(*                                                                         *)
(* src/main.js holds two scripts, each an immediately-invoked function     *)
(* that registers a 'bidResponse' listener on the global pbjs object;      *)
(* src/unnamed/part_000 is a third script registering a listener of the    *)
(* same kind.  pbjs delivers every bidResponse event to all registered     *)
(* listeners, synchronously and in registration order, so one event is one *)
(* step of the model that runs the three listeners one after the other.    *)
(*                                                                         *)
(* Numbers.  A JavaScript number that holds money is modelled as an exact  *)
(* rational <<numerator, denominator>> in dollars (denominator > 0, lowest *)
(* terms); bid prices (cpm) enter as a whole number of cents.  Date.now()  *)
(* is an integer number of milliseconds.  One event is handled within one  *)
(* reading of the clock: the listeners are straight-line synchronous code. *)
(* The local time zone is taken to be UTC.                                 *)
(***************************************************************************)
EXTENDS Integers, Sequences, FiniteSets, TLC

\* ------------------------------------------------------------------------
\* Exact arithmetic on JavaScript numbers
\* ------------------------------------------------------------------------

Abs(x) == IF x < 0 THEN -x ELSE x

RECURSIVE GCD(_, _)
GCD(a, b) == IF b = 0 THEN a ELSE GCD(b, a % b)

\* The rational n/d in lowest terms, with a positive denominator.
Rat(n, d) ==
    LET Over(s, g) == <<(s * n) \div g, (s * d) \div g>>
    IN  Over(IF d < 0 THEN -1 ELSE 1, GCD(Abs(n), Abs(d)))

RatInt(n) == <<n, 1>>

RatAdd(x, y) ==
    LET Over(g) ==
            Rat(x[1] * (y[2] \div g) + y[1] * (x[2] \div g), x[2] * (y[2] \div g))
    IN  Over(GCD(x[2], y[2]))

RatNeg(x) == <<-x[1], x[2]>>

RatSub(x, y) == RatAdd(x, RatNeg(y))

\* Cross-cancel before multiplying, so that intermediate products stay small.
RatMul(x, y) ==
    LET Cancelled(a, b) ==
            Rat((x[1] \div a) * (y[1] \div b), (x[2] \div b) * (y[2] \div a))
        NonZero(g) == IF g = 0 THEN 1 ELSE g
    IN  Cancelled(NonZero(GCD(Abs(x[1]), y[2])), NonZero(GCD(Abs(y[1]), x[2])))

RatDivInt(x, n) == RatMul(x, Rat(1, n))

RatLess(x, y) == RatSub(x, y)[1] < 0

RatAbs(x) == <<Abs(x[1]), x[2]>>

\* Math.min of two numbers.
MathMin(x, y) == IF RatLess(y, x) THEN y ELSE x

\* Math.round: the integer nearest to x, a tie going towards +Infinity.
MathRound(x) == (2 * x[1] + x[2]) \div (2 * x[2])

\* Math.floor: the largest integer not above x.
MathFloor(x) == x[1] \div x[2]

\* A cpm given in cents, as a number of dollars.
Dollars(cents) == Rat(cents, 100)

\* The value NaN (0/0 in the code), kept apart from every rational.
NaN == <<0, 0>>

\* ------------------------------------------------------------------------
\* Number.prototype.toFixed
\* ------------------------------------------------------------------------

DigitChar(d) == <<"0", "1", "2", "3", "4", "5", "6", "7", "8", "9">>[d + 1]

RECURSIVE NatToChars(_)
NatToChars(n) ==
    IF n < 10 THEN <<DigitChar(n)>>
    ELSE NatToChars(n \div 10) \o <<DigitChar(n % 10)>>

RECURSIVE Pow10(_)
Pow10(f) == IF f = 0 THEN 1 ELSE 10 * Pow10(f - 1)

RECURSIVE PadLeft(_, _)
PadLeft(chars, len) ==
    IF Len(chars) >= len THEN chars ELSE PadLeft(<<"0">> \o chars, len)

\* x.toFixed(f) for f >= 1: the sign, then the digits of the integer nearest
\* to |x| * 10^f (a tie going to the larger one), padded to f + 1 digits, with
\* a decimal point before the last f digits.
toFixed(x, f) ==
    IF x = NaN THEN <<"N", "a", "N">>
    ELSE
        LET n  == MathRound(RatMul(RatAbs(x), RatInt(Pow10(f))))
            sg == IF x[1] < 0 THEN <<"-">> ELSE << >>
            Point(m, k) == sg \o SubSeq(m, 1, k) \o <<".">> \o SubSeq(m, k + 1, Len(m))
            Digits(m) == Point(m, Len(m) - f)
        IN  Digits(PadLeft(NatToChars(n), f + 1))

\* ------------------------------------------------------------------------
\* Array helpers
\* ------------------------------------------------------------------------

\* Array.prototype.sort((a, b) => a - b): ascending by numeric value.
RECURSIVE InsertSorted(_, _)
InsertSorted(sorted, x) ==
    IF sorted = << >> THEN <<x>>
    ELSE IF x < Head(sorted) THEN <<x>> \o sorted
    ELSE <<Head(sorted)>> \o InsertSorted(Tail(sorted), x)

RECURSIVE SortAscending(_)
SortAscending(values) ==
    IF values = << >> THEN << >>
    ELSE InsertSorted(SortAscending(SubSeq(values, 1, Len(values) - 1)),
                      values[Len(values)])

\* Array.prototype.reduce((sum, bid) => sum + bid, 0)
RECURSIVE SumOf(_)
SumOf(values) == IF values = << >> THEN 0 ELSE Head(values) + SumOf(Tail(values))

\* samples.map(entry => entry.cpm)
MapCpm(samples) == [i \in 1..Len(samples) |-> samples[i].cpm]

\* The sequence without its i-th element.
RemoveAt(seq, i) == SubSeq(seq, 1, i - 1) \o SubSeq(seq, i + 1, Len(seq))

\* ------------------------------------------------------------------------
\* Program constants
\* ------------------------------------------------------------------------

priceAdjustmentFactor == Rat(1, 100)

peakHourIncrease == Rat(15, 100)

peakHourCap == Rat(2, 10)

bidExpirationTime == 24 * 60 * 60 * 1000

revenueShare == Rat(2, 10)

\* The minimum number of samples adjustPricingRule asks for.
MinSamples == 5

\* ------------------------------------------------------------------------
\* First script of src/main.js
\* ------------------------------------------------------------------------

\* new Date().getHours() and .getMinutes() at clock reading t.
getHours(t) == (t \div (60 * 60 * 1000)) % 24

getMinutes(t) == (t \div (60 * 1000)) % 60

\* isPeakHour with the windows open at their upper ends.
isPeakHourExclusiveEnd(t) ==
    LET timeInMinutes == getHours(t) * 60 + getMinutes(t)
    IN  \/ (timeInMinutes >= 450 /\ timeInMinutes < 570)
        \/ (timeInMinutes >= 990 /\ timeInMinutes < 1140)

isPeakHour(t) ==
    LET timeInMinutes == getHours(t) * 60 + getMinutes(t)
    IN  \/ (timeInMinutes >= 450 /\ timeInMinutes <= 570)
        \/ (timeInMinutes >= 990 /\ timeInMinutes <= 1140)

\* if (!bidHistory[adUnitCode]) bidHistory[adUnitCode] = [];
ensureSlot(history, adUnitCode) ==
    IF adUnitCode \in DOMAIN history THEN history
    ELSE [s \in DOMAIN history \cup {adUnitCode} |->
            IF s \in DOMAIN history THEN history[s] ELSE << >>]

\* recordBid with the age test written <= : a sample exactly one retention
\* window old is kept.
recordBidKeepingDayOld(history, adUnitCode, cpm, t) ==
    LET created == ensureSlot(history, adUnitCode)
        pushed  == [created EXCEPT ![adUnitCode] =
                        Append(@, [cpm |-> cpm, timestamp |-> t])]
    IN  [pushed EXCEPT ![adUnitCode] =
            SelectSeq(@, LAMBDA bid : (t - bid.timestamp) <= bidExpirationTime)]

\* recordBid with the age filter run over every slot of the table.
recordBidSweepingAll(history, adUnitCode, cpm, t) ==
    LET created == ensureSlot(history, adUnitCode)
        pushed  == [created EXCEPT ![adUnitCode] =
                        Append(@, [cpm |-> cpm, timestamp |-> t])]
    IN  [s \in DOMAIN pushed |->
            SelectSeq(pushed[s], LAMBDA bid : (t - bid.timestamp) < bidExpirationTime)]

\* The listener up to the call of adjustPricingRule: push the sample, then
\* filter the slot's samples by age.
recordBid(history, adUnitCode, cpm, t) ==
    LET created == ensureSlot(history, adUnitCode)
        pushed  == [created EXCEPT ![adUnitCode] =
                        Append(@, [cpm |-> cpm, timestamp |-> t])]
    IN  [pushed EXCEPT ![adUnitCode] =
            SelectSeq(@, LAMBDA bid : (t - bid.timestamp) < bidExpirationTime)]

\* notEnoughData with the length test written <= 5.
notEnoughDataOffByOne(history, adUnitCode) ==
    \/ adUnitCode \notin DOMAIN history
    \/ Len(history[adUnitCode]) <= MinSamples

\* !bidHistory[adUnitCode] || bidHistory[adUnitCode].length < 5
notEnoughData(history, adUnitCode) ==
    \/ adUnitCode \notin DOMAIN history
    \/ Len(history[adUnitCode]) < MinSamples

\* percentileIndex with Math.round in place of Math.floor.
percentileIndexRounded(length) == MathRound(RatMul(RatInt(length), Rat(9, 10)))

\* Math.floor(sortedBids.length * 0.9)
percentileIndex(length) == MathFloor(RatMul(RatInt(length), Rat(9, 10)))

\* sortedBids[Math.floor(sortedBids.length * 0.9)] || sortedBids[0], in cents.
\* Indices are 0-based in the code and 1-based here; an index outside the
\* array reads undefined, which is falsy like 0.
requiredBidOf(sortedBids) ==
    LET At(i) == IF i \in DOMAIN sortedBids /\ sortedBids[i] # 0
                 THEN sortedBids[i]
                 ELSE sortedBids[1]
    IN  At(percentileIndex(Len(sortedBids)) + 1)

getPeakHourMultiplier(history, adUnitCode, t) ==
    IF notEnoughData(history, adUnitCode) THEN peakHourIncrease
    ELSE
        LET fresh == SelectSeq(history[adUnitCode],
                         LAMBDA entry : (t - entry.timestamp) < bidExpirationTime)
            Multiplier(bidValues) ==
                IF bidValues = << >> THEN NaN
                ELSE
                    LET averageBid ==
                            RatDivInt(Dollars(SumOf(bidValues)), Len(bidValues))
                        calculatedMultiplier ==
                            RatAdd(peakHourIncrease, RatMul(averageBid, Rat(1, 100)))
                    IN  MathMin(calculatedMultiplier, peakHourCap)
        IN  Multiplier(MapCpm(fresh))

\* roundedBidOf with the cent increment in every tier.
roundedBidOfCents(optimalBid) ==
    toFixed(Rat(MathRound(RatMul(optimalBid, RatInt(100))), 100), 2)

\* The rounding of optimalBid for the hb_pb targeting key.
roundedBidOf(optimalBid) ==
    IF optimalBid = NaN THEN toFixed(NaN, 1)
    ELSE IF RatLess(optimalBid, RatInt(5))
    THEN toFixed(Rat(MathRound(RatMul(optimalBid, RatInt(100))), 100), 2)
    ELSE IF RatLess(optimalBid, RatInt(10))
    THEN toFixed(Rat(MathRound(RatMul(optimalBid, RatInt(20))), 20), 2)
    ELSE toFixed(Rat(MathRound(RatMul(optimalBid, RatInt(10))), 10), 1)

\* What one run of adjustPricingRule computes and hands off: ran is FALSE on
\* the early return; otherwise hb_pb is the value given to pbjs.setTargeting and
\* update the arguments of updateGoogleAdManagerPricing.
adjustOutcome(history, adUnitCode, t) ==
    IF notEnoughData(history, adUnitCode) THEN [ran |-> FALSE]
    ELSE
        LET sortedBids == SortAscending(MapCpm(history[adUnitCode]))
            HandOff(requiredBid, peak, multiplier, optimalBid) ==
                [ran         |-> TRUE,
                 requiredBid |-> requiredBid,
                 peak        |-> peak,
                 multiplier  |-> multiplier,
                 optimalBid  |-> optimalBid,
                 hb_pb       |-> roundedBidOf(optimalBid),
                 update      |-> [adUnitCode  |-> adUnitCode,
                                  newBidPrice |-> optimalBid]]
            Scaled(requiredBid, base, peak, multiplier) ==
                HandOff(requiredBid, peak, multiplier,
                        IF ~peak THEN base
                        ELSE IF multiplier = NaN THEN NaN
                        ELSE RatMul(base, RatAdd(RatInt(1), multiplier)))
            Priced(requiredBid, peak) ==
                Scaled(requiredBid, RatAdd(requiredBid, priceAdjustmentFactor), peak,
                       IF peak THEN getPeakHourMultiplier(history, adUnitCode, t)
                       ELSE RatInt(0))
        IN  Priced(Dollars(requiredBidOf(sortedBids)), isPeakHour(t))

\* The samples in ascending order of cpm.
RECURSIVE InsertSample(_, _)
InsertSample(sorted, x) ==
    IF sorted = << >> THEN <<x>>
    ELSE IF x.cpm < Head(sorted).cpm THEN <<x>> \o sorted
    ELSE <<Head(sorted)>> \o InsertSample(Tail(sorted), x)

RECURSIVE SortSamples(_)
SortSamples(samples) ==
    IF samples = << >> THEN << >>
    ELSE InsertSample(SortSamples(SubSeq(samples, 1, Len(samples) - 1)),
                      samples[Len(samples)])

\* adjustPricingRule sorting the stored samples themselves, not a copy.
adjustPricingRuleSortingInPlace(history, adUnitCode, t) ==
    [bidHistory |-> IF notEnoughData(history, adUnitCode) THEN history
                    ELSE [history EXCEPT ![adUnitCode] = SortSamples(@)],
     out        |-> adjustOutcome(history, adUnitCode, t)]

\* adjustPricingRule: the history it leaves behind (it sorts a copy made by
\* map, so the stored samples are untouched) and its outcome.
adjustPricingRule(history, adUnitCode, t) ==
    [bidHistory |-> history, out |-> adjustOutcome(history, adUnitCode, t)]


\* The first script's listener: record the bid, then adjust the slot's price.
\* Its result is the history it leaves and the outcome of adjustPricingRule.
onBidResponse(history, bid, t) ==
    adjustPricingRule(recordBid(history, bid.adUnitCode, bid.cpm, t),
                      bid.adUnitCode, t)

\* pbjs.setTargeting(adUnitCode, { "hb_pb": roundedBid })
setTargeting(targets, adUnitCode, value) ==
    [s \in DOMAIN targets \cup {adUnitCode} |->
        IF s = adUnitCode THEN [hb_pb |-> value] ELSE targets[s]]

\* ------------------------------------------------------------------------
\* Second script of src/main.js
\* ------------------------------------------------------------------------

\* The listener up to the call of adjustPricingRule: push the price.
recordBid2(history, adUnitCode, cpm) ==
    [ensureSlot(history, adUnitCode) EXCEPT ![adUnitCode] = Append(@, cpm)]

\* What one run of the second script's adjustPricingRule computes, logs and
\* sends: request is the body of the POST that updateGoogleAdManagerPricing
\* starts with fetch.
adjustOutcome2(history, adUnitCode) ==
    IF notEnoughData(history, adUnitCode) THEN [ran |-> FALSE]
    ELSE
        LET Report(requiredBid, optimalBid, savings) ==
                [ran             |-> TRUE,
                 requiredBid     |-> requiredBid,
                 optimalBid      |-> optimalBid,
                 platformRevenue |-> RatMul(savings, revenueShare),
                 returnedToMedia |-> RatMul(savings, RatSub(RatInt(1), revenueShare)),
                 request         |-> [adUnit |-> adUnitCode, newPrice |-> optimalBid]]
            Saved(requiredBid, optimalBid, lastBid) ==
                Report(requiredBid, optimalBid, RatSub(lastBid, optimalBid))
            Priced(sortedBids, requiredBid) ==
                Saved(requiredBid, RatAdd(requiredBid, priceAdjustmentFactor),
                      Dollars(sortedBids[Len(sortedBids)]))
            Sorted(sortedBids) == Priced(sortedBids, Dollars(requiredBidOf(sortedBids)))
        IN  Sorted(SortAscending(history[adUnitCode]))

\* The second script's adjustPricingRule sorts a spread copy of the samples.
adjustPricingRule2(history, adUnitCode) ==
    [bidHistory |-> history, out |-> adjustOutcome2(history, adUnitCode)]

onBidResponse2(history, bid) ==
    adjustPricingRule2(recordBid2(history, bid.adUnitCode, bid.cpm), bid.adUnitCode)

\* ------------------------------------------------------------------------
\* src/unnamed/part_000
\* ------------------------------------------------------------------------

\* The body of this script's adjustPricingRule lies beyond the end of the
\* source text; it is taken to be the pure computation of the design, which
\* carries no state between invocations.
adjustPricingRuleP(history, adUnitCode) == history

onBidResponseP(history, bid) ==
    adjustPricingRuleP(recordBid2(history, bid.adUnitCode, bid.cpm), bid.adUnitCode)

\* ------------------------------------------------------------------------
\* Bounds and inputs
\* ------------------------------------------------------------------------

\* Ad unit codes of the bids pbjs reports.
Slots == {"A", "B"}

\* Bid prices in cents.
Cpm == {3, 702}

\* Bid prices in cents for the checks of the price computation: a negative
\* and a zero price, and prices around the rounding tiers.
CpmWide == {-10, 0, 100, 702, 1000}

\* The number of bidResponse events in a behaviour.
MaxBids == 6

\* The number of bidResponse events after the initial samples, in the
\* specifications that start from a recorded history.
MaxAdjustBids == 1

\* The first clock reading: 07:29:59.999, the last millisecond before the
\* morning peak window.
Epoch == 450 * 60 * 1000 - 1

\* The clock readings: Epoch, one millisecond later (07:30:00.000), and one
\* retention window after Epoch, so that samples are found 1 ms, one
\* millisecond less than 24 hours, and exactly 24 hours old.
Times == {Epoch, Epoch + 1, Epoch + bidExpirationTime}

Bids(prices) == {[adUnitCode |-> s, cpm |-> c, bidder |-> "bidder"] :
                    s \in Slots, c \in prices}

\* ------------------------------------------------------------------------
\* State
\* ------------------------------------------------------------------------

VARIABLES
    now,          \* Date.now()
    bidHistory,   \* first script: ad unit code -> samples {cpm, timestamp}
    targeting,    \* pbjs targeting: ad unit code -> { hb_pb }
    lastAdjust,   \* first script: outcome of the latest adjustPricingRule run
    bidHistory2,  \* second script: ad unit code -> prices
    inflight,     \* second script: the fetch requests not yet settled
    console2,     \* second script: what the latest step wrote to the console
    bidHistoryP,  \* part_000: ad unit code -> prices
    observed      \* every observation delivered so far, per ad unit code

vars == <<now, bidHistory, targeting, lastAdjust, bidHistory2, inflight,
          console2, bidHistoryP, observed>>

EmptyTable == [s \in {} |-> << >>]

\* The program's variables as one record.
Program == [bidHistory  |-> bidHistory,  targeting   |-> targeting,
            lastAdjust  |-> lastAdjust,  bidHistory2 |-> bidHistory2,
            inflight    |-> inflight,    console2    |-> console2,
            bidHistoryP |-> bidHistoryP, observed    |-> observed]

\* The state once the three scripts have run and registered their listeners.
Loaded == [bidHistory  |-> EmptyTable,  targeting   |-> EmptyTable,
           lastAdjust  |-> [ran |-> FALSE], bidHistory2 |-> EmptyTable,
           inflight    |-> << >>,       console2    |-> [level |-> "log", ran |-> FALSE],
           bidHistoryP |-> EmptyTable,  observed    |-> EmptyTable]

\* pbjs emits bidResponse(bid) at clock reading t: the three listeners run in
\* registration order, each on its own bidHistory.
Deliver(st, bid, t) ==
    LET Listeners(first, second) ==
        [bidHistory  |-> first.bidHistory,
         targeting   |-> IF first.out.ran
                         THEN setTargeting(st.targeting, bid.adUnitCode, first.out.hb_pb)
                         ELSE st.targeting,
         lastAdjust  |-> first.out,
         bidHistory2 |-> second.bidHistory,
         inflight    |-> IF second.out.ran
                         THEN Append(st.inflight, second.out.request)
                         ELSE st.inflight,
         console2    |-> [level |-> "log"] @@ second.out,
         bidHistoryP |-> onBidResponseP(st.bidHistoryP, bid),
         observed    |-> [ensureSlot(st.observed, bid.adUnitCode)
                            EXCEPT ![bid.adUnitCode] =
                                Append(@, [cpm |-> bid.cpm, timestamp |-> t])]]
    IN  Listeners(onBidResponse(st.bidHistory, bid, t),
                  onBidResponse2(st.bidHistory2, bid))

RECURSIVE Replay(_, _)
Replay(bids, t) ==
    IF bids = << >> THEN Loaded
    ELSE Deliver(Replay(SubSeq(bids, 1, Len(bids) - 1), t), bids[Len(bids)], t)

Install(st) ==
    /\ bidHistory = st.bidHistory
    /\ targeting = st.targeting
    /\ lastAdjust = st.lastAdjust
    /\ bidHistory2 = st.bidHistory2
    /\ inflight = st.inflight
    /\ console2 = st.console2
    /\ bidHistoryP = st.bidHistoryP
    /\ observed = st.observed

\* The number of bidResponse events delivered so far.
RECURSIVE CountAll(_, _)
CountAll(table, keys) ==
    IF keys = {} THEN 0
    ELSE LET k == CHOOSE x \in keys : TRUE
         IN  Len(table[k]) + CountAll(table, keys \ {k})

Delivered == CountAll(observed, DOMAIN observed)

\* ------------------------------------------------------------------------
\* Actions
\* ------------------------------------------------------------------------

Init ==
    /\ now = Epoch
    /\ Install(Loaded)

\* pbjs reports a bid.
BidResponse(bid) ==
    \E st \in {Deliver(Program, bid, now)} :
        /\ bidHistory' = st.bidHistory
        /\ targeting' = st.targeting
        /\ lastAdjust' = st.lastAdjust
        /\ bidHistory2' = st.bidHistory2
        /\ inflight' = st.inflight
        /\ console2' = st.console2
        /\ bidHistoryP' = st.bidHistoryP
        /\ observed' = st.observed
        /\ UNCHANGED now

\* The wall clock moves on to a later reading.
Tick ==
    /\ \E t \in Times : t > now /\ now' = t
    /\ UNCHANGED <<bidHistory, targeting, lastAdjust, bidHistory2, inflight,
                   console2, bidHistoryP, observed>>

\* A fetch started by the second script's updateGoogleAdManagerPricing is
\* answered and the answer parses as JSON: the second .then logs it.
FetchFulfilled ==
    \E i \in 1..Len(inflight) :
        /\ console2' = [level |-> "log", updated |-> inflight[i].adUnit]
        /\ inflight' = RemoveAt(inflight, i)
        /\ UNCHANGED <<now, bidHistory, targeting, lastAdjust, bidHistory2,
                       bidHistoryP, observed>>

\* FetchRejected with a .catch that also takes the slot's latest price back
\* out of the history.
FetchRejectedRollingBack ==
    \E i \in 1..Len(inflight) :
        /\ console2' = [level |-> "error", failed |-> inflight[i].adUnit]
        /\ inflight' = RemoveAt(inflight, i)
        /\ bidHistory2' = [bidHistory2 EXCEPT ![inflight[i].adUnit] =
                              SubSeq(@, 1, Len(@) - 1)]
        /\ UNCHANGED <<now, bidHistory, targeting, lastAdjust, bidHistoryP, observed>>

\* The fetch fails (network, credentials) or its answer is not JSON: the
\* .catch logs the error.
FetchRejected ==
    \E i \in 1..Len(inflight) :
        /\ console2' = [level |-> "error", failed |-> inflight[i].adUnit]
        /\ inflight' = RemoveAt(inflight, i)
        /\ UNCHANGED <<now, bidHistory, targeting, lastAdjust, bidHistory2,
                       bidHistoryP, observed>>

Next ==
    \/ \E bid \in Bids(Cpm) : Delivered < MaxBids /\ BidResponse(bid)
    \/ Tick
    \/ FetchFulfilled
    \/ FetchRejected

Spec == Init /\ [][Next]_vars

\* ------------------------------------------------------------------------
\* The price computation on its own: the behaviours start after a run of
\* bids for slot A, all delivered within the first clock reading, and go on
\* with MaxAdjustBids further bids.
\* ------------------------------------------------------------------------

SeedBids(cents) == [i \in 1..Len(cents) |->
                        [adUnitCode |-> "A", cpm |-> cents[i], bidder |-> "bidder"]]

\* Every run of four prices, and three orders of nine of the prices $1..$10.
SeedPrices ==
    [1..4 -> CpmWide]
        \cup {<<100, 200, 300, 400, 500, 600, 700, 800, 900>>,
              <<1000, 900, 800, 700, 600, 500, 400, 300, 200>>,
              <<500, 900, 100, 700, 300, 800, 200, 600, 400>>}

SeedLengths == {Len(cents) : cents \in SeedPrices}

InitAdjust ==
    /\ now \in {Epoch, Epoch + 1}
    /\ \E cents \in SeedPrices : Install(Replay(SeedBids(cents), now))

NextAdjust ==
    \E bid \in Bids(CpmWide) :
        /\ \E len \in SeedLengths : Delivered >= len /\ Delivered < len + MaxAdjustBids
        /\ BidResponse(bid)

SpecAdjust == InitAdjust /\ [][NextAdjust]_vars

\* ------------------------------------------------------------------------
\* The peak-window test at every minute of the day: the behaviours start at
\* the first or the last millisecond of a minute, after four bids for slot A.
\* ------------------------------------------------------------------------

MinutesOfDay == 0..(24 * 60 - 1)

InitPeak ==
    /\ now \in {m * 60 * 1000 + ms : m \in MinutesOfDay, ms \in {0, 59999}}
    /\ Install(Replay(SeedBids(<<702, 100, 702, 1000>>), now))

NextPeak ==
    \E bid \in Bids(Cpm) :
        /\ Delivered < 4 + MaxAdjustBids
        /\ BidResponse(bid)

SpecPeak == InitPeak /\ [][NextPeak]_vars


\* ------------------------------------------------------------------------
\* Vocabulary of the properties
\* ------------------------------------------------------------------------

RetentionWindow == 24 * 60 * 60 * 1000

Last(seq) == seq[Len(seq)]

SizeOf(table, s) == IF s \in DOMAIN table THEN Len(table[s]) ELSE 0

Prices(samples) == [i \in 1..Len(samples) |-> samples[i].cpm]

\* This step is a bidResponse event for slot s.
BidStepFor(s) == SizeOf(observed', s) = SizeOf(observed, s) + 1

\* This step settles a fetch.
SettleStep == Len(inflight') < Len(inflight)

\* The observations of slot s, in the order delivered, that are less than a
\* retention window old at clock reading t.
FreshObservations(s, t) ==
    SelectSeq(observed[s], LAMBDA o : t - o.timestamp < RetentionWindow)

\* The clock reading of the latest bidResponse event for slot s.
LastBidAt(s) == Last(observed[s]).timestamp

\* The number of price-update requests the second script has sent for slot s:
\* one for each bid from the fifth on.
RequestsSent(s) == IF SizeOf(observed, s) >= 5 THEN SizeOf(observed, s) - 4 ELSE 0

\* The number a toFixed string denotes.
DigitOf(c) == CHOOSE d \in 0..9 : DigitChar(d) = c

RECURSIVE CharsToNat(_)
CharsToNat(chars) ==
    IF chars = << >> THEN 0
    ELSE 10 * CharsToNat(SubSeq(chars, 1, Len(chars) - 1)) + DigitOf(Last(chars))

ParseFixed(chars) ==
    LET neg   == chars[1] = "-"
        body  == IF neg THEN Tail(chars) ELSE chars
        point == CHOOSE i \in 1..Len(body) : body[i] = "."
        scale == Pow10(Len(body) - point)
        units == CharsToNat(SubSeq(body, 1, point - 1)) * scale
                    + CharsToNat(SubSeq(body, point + 1, Len(body)))
    IN  <<IF neg THEN -units ELSE units, scale>>

Decimals(chars) == Len(chars) - (CHOOSE i \in 1..Len(chars) : chars[i] = ".")

\* Comparison of two fractions n/d with d > 0, by the sign of x - y.
SameNumber(x, y) == RatSub(x, y)[1] = 0

AtMost(x, y) == RatSub(x, y)[1] <= 0

Below(x, y) == RatSub(x, y)[1] < 0

\* x is a whole multiple of 1/per.
MultipleOf(x, per) == (x[1] * per) % x[2] = 0

\* |x - y| <= 1 / (2 * per): x is a nearest multiple of 1/per to y.
Nearest(x, y, per) == AtMost(RatAbs(RatSub(x, y)), <<1, 2 * per>>)

\* v is the element of rank k (0-based) among the values, in ascending order.
HasRank(values, k, v) ==
    /\ \E i \in DOMAIN values : values[i] = v
    /\ Cardinality({i \in DOMAIN values : values[i] < v}) <= k
    /\ Cardinality({i \in DOMAIN values : values[i] <= v}) >= k + 1

Minimum(values) == CHOOSE v \in {values[i] : i \in DOMAIN values} :
                        \A i \in DOMAIN values : v <= values[i]

\* ------------------------------------------------------------------------
\* C1.  First script: right after a bidResponse event for slot s at clock
\* reading t (the clock never running backwards), bidHistory[s] holds exactly
\* the observations ever delivered for s that are less than 24 hours old at
\* t, in the order they were delivered; one that is exactly 24 hours old is
\* gone.  A slot's history changes only in its own events, so at any moment
\* it is what its latest event left.
\* ------------------------------------------------------------------------
C1_HistoryIsExactlyFreshObservations ==
    /\ DOMAIN bidHistory = DOMAIN observed
    /\ \A s \in DOMAIN observed :
          bidHistory[s] = FreshObservations(s, LastBidAt(s))

\* A sample 24 hours old was removed while one a millisecond younger stayed.
C1_Witness ==
    \E s \in DOMAIN observed :
        /\ \E i \in DOMAIN observed[s] :
              LastBidAt(s) - observed[s][i].timestamp = RetentionWindow
        /\ \E i \in DOMAIN bidHistory[s] :
              LastBidAt(s) - bidHistory[s][i].timestamp = RetentionWindow - 1
        /\ Len(bidHistory[s]) < Len(observed[s])

\* ------------------------------------------------------------------------
\* C2.  Second script and part_000: after any sequence of bidResponse
\* events the slot's stored prices are those of the observations less than
\* 24 hours old at the latest event of the slot; older ones have been
\* removed.
\* ------------------------------------------------------------------------
C2_NoSampleOlderThanWindow ==
    \A s \in DOMAIN observed :
        /\ bidHistory2[s] = Prices(FreshObservations(s, LastBidAt(s)))
        /\ bidHistoryP[s] = Prices(FreshObservations(s, LastBidAt(s)))

\* ------------------------------------------------------------------------
\* C3.  A bidResponse event that leaves the slot with fewer than 5 samples
\* ends in the insufficient-data outcome whatever the prices: no targeting is
\* set, no price update is handed off or sent, and the recorded samples are
\* kept; a slot with no history at all gets the same outcome.  With 5 or
\* more samples a price is computed, set as targeting (first script) and
\* handed off for the slot (both scripts).
\* ------------------------------------------------------------------------
C3_MinimumSampleGuard ==
    [][\A s \in Slots : BidStepFor(s) =>
          /\ bidHistory'[s] # << >>
          /\ Last(bidHistory'[s]) = Last(observed'[s])
          /\ IF Len(bidHistory'[s]) < 5
             THEN /\ ~lastAdjust'.ran
                  /\ targeting' = targeting
             ELSE /\ lastAdjust'.ran
                  /\ lastAdjust'.update.adUnitCode = s
                  /\ s \in DOMAIN targeting'
                  /\ targeting'[s].hb_pb = lastAdjust'.hb_pb
          /\ Last(bidHistory2'[s]) = Last(observed'[s]).cpm
          /\ IF Len(bidHistory2'[s]) < 5
             THEN /\ ~console2'.ran
                  /\ inflight' = inflight
             ELSE /\ console2'.ran
                  /\ Len(inflight') = Len(inflight) + 1
                  /\ Last(inflight').adUnit = s
          /\ \A u \in Slots \ DOMAIN bidHistory' :
                /\ ~adjustOutcome(bidHistory', u, now').ran
                /\ ~adjustOutcome2(bidHistory2', u).ran
      ]_vars

\* A slot that had reached 5 samples is back to 4 after an eviction, and the
\* adjustment was skipped.
C3_Witness ==
    \E s \in DOMAIN bidHistory :
        /\ Len(bidHistory[s]) = 4
        /\ Len(observed[s]) >= 6
        /\ LastBidAt(s) = now
        /\ ~lastAdjust.ran
        /\ s \in DOMAIN targeting

\* ------------------------------------------------------------------------
\* C4.  For every sample set of size n >= 5, in any insertion order, the
\* required price is the element of 0-based rank floor(n * 0.9) of the
\* prices in ascending order, or the smallest price when that element is 0;
\* the rank lies within the samples; outside a peak window the target price is
\* the required price plus 0.01 (always, in the second script).  The samples
\* $1..$10 give 10 and 10.01.
\* ------------------------------------------------------------------------
C4_PercentilePrice ==
    /\ lastAdjust.ran =>
          LET s      == lastAdjust.update.adUnitCode
              values == Prices(bidHistory[s])
              n      == Len(values)
              k      == (n * 9) \div 10
          IN  /\ n >= 5
              /\ k < n
              /\ percentileIndex(n) = k
              /\ \E v \in {values[i] : i \in DOMAIN values} :
                    /\ HasRank(values, k, v)
                    /\ SameNumber(lastAdjust.requiredBid,
                                  <<IF v # 0 THEN v ELSE Minimum(values), 100>>)
              /\ ~lastAdjust.peak =>
                    SameNumber(lastAdjust.optimalBid,
                               <<lastAdjust.requiredBid[1] * 100
                                    + lastAdjust.requiredBid[2],
                                 lastAdjust.requiredBid[2] * 100>>)
              /\ {values[i] : i \in DOMAIN values} = {100 * d : d \in 1..10} /\ n = 10
                    => /\ lastAdjust.requiredBid = <<10, 1>>
                       /\ ~lastAdjust.peak => lastAdjust.optimalBid = <<1001, 100>>
    /\ console2.level = "log" /\ "ran" \in DOMAIN console2 /\ console2.ran =>
          LET s      == console2.request.adUnit
              values == bidHistory2[s]
              n      == Len(values)
              k      == (n * 9) \div 10
          IN  /\ n >= 5
              /\ k < n
              /\ \E v \in {values[i] : i \in DOMAIN values} :
                    /\ HasRank(values, k, v)
                    /\ SameNumber(console2.requiredBid,
                                  <<IF v # 0 THEN v ELSE Minimum(values), 100>>)
              /\ SameNumber(console2.optimalBid,
                            <<console2.requiredBid[1] * 100 + console2.requiredBid[2],
                              console2.requiredBid[2] * 100>>)

\* The samples $1..$10, delivered out of order, outside the peak window.
C4_Witness ==
    /\ lastAdjust.ran
    /\ ~lastAdjust.peak
    /\ Prices(bidHistory["A"]) = <<500, 900, 100, 700, 300, 800, 200, 600, 400, 1000>>
    /\ lastAdjust.requiredBid = <<10, 1>>
    /\ lastAdjust.optimalBid = <<1001, 100>>

\* ------------------------------------------------------------------------
\* C5.  Whenever adjustPricingRule runs inside a peak window with at least 5
\* samples, the floor price is raised by between 15% and 20%: the multiplier
\* m of getPeakHourMultiplier satisfies 0.15 <= m <= 0.20 and the target price
\* is (required price + 0.01) * (1 + m), for every stored sample set, zero and
\* negative prices included.
\* ------------------------------------------------------------------------
C5_PeakIncreaseBetween15And20Percent ==
    lastAdjust.ran /\ lastAdjust.peak =>
        /\ AtMost(<<15, 100>>, lastAdjust.multiplier)
        /\ AtMost(lastAdjust.multiplier, <<20, 100>>)
        /\ lastAdjust.optimalBid =
              RatMul(RatAdd(lastAdjust.requiredBid, <<1, 100>>),
                     RatAdd(<<1, 1>>, lastAdjust.multiplier))

\* ------------------------------------------------------------------------
\* C6.  isPeakHour is true exactly from 07:30 to 09:30 and from 16:30 to
\* 19:00, both ends included to the minute: 07:30, 09:30, 16:30 and 19:00 are
\* inside, 07:29, 09:31, 16:29 and 19:01 outside, for every minute of the day.
\* ------------------------------------------------------------------------
ClockHour == (now \div 3600000) % 24

ClockMinute == (now \div 60000) % 60

InPeakWindowByClock ==
    \/ ClockHour = 7 /\ ClockMinute >= 30
    \/ ClockHour = 8
    \/ ClockHour = 9 /\ ClockMinute <= 30
    \/ ClockHour = 16 /\ ClockMinute >= 30
    \/ ClockHour \in {17, 18}
    \/ ClockHour = 19 /\ ClockMinute = 0

C6_PeakWindowsInclusive ==
    lastAdjust.ran =>
        /\ lastAdjust.peak = InPeakWindowByClock
        /\ <<ClockHour, ClockMinute>> \in {<<7, 30>>, <<9, 30>>, <<16, 30>>, <<19, 0>>}
              => lastAdjust.peak
        /\ <<ClockHour, ClockMinute>> \in {<<7, 29>>, <<9, 31>>, <<16, 29>>, <<19, 1>>}
              => ~lastAdjust.peak

\* An adjustment in the last millisecond of 09:30.
C6_Witness ==
    /\ lastAdjust.ran
    /\ lastAdjust.peak
    /\ now = (9 * 60 + 30) * 60000 + 59999


\* ------------------------------------------------------------------------
\* C7.  The price-update call is fire-and-forget.  Under every interleaving
\* of bidResponse events with the settling of earlier calls, a settled call is
\* logged (the answer, or the caught error) and leaves every bidHistory as it
\* was; and a bid is handled without regard to what has settled: the second
\* script's history is the log of all bids delivered, and a bid on a slot
\* with 5 samples or more sends one more request, at the price just computed
\* and logged, behind the requests still in flight.
\* ------------------------------------------------------------------------
C7_FireAndForget ==
    [][/\ SettleStep =>
            /\ bidHistory' = bidHistory
            /\ bidHistory2' = bidHistory2
            /\ bidHistoryP' = bidHistoryP
            /\ targeting' = targeting
            /\ \E i \in DOMAIN inflight :
                  /\ inflight' = RemoveAt(inflight, i)
                  /\ console2' \in {[level |-> "log", updated |-> inflight[i].adUnit],
                                    [level |-> "error", failed |-> inflight[i].adUnit]}
       /\ \A s \in Slots : BidStepFor(s) =>
            /\ DOMAIN bidHistory2' = DOMAIN observed'
            /\ \A u \in DOMAIN observed' : bidHistory2'[u] = Prices(observed'[u])
            /\ IF Len(observed'[s]) >= 5
               THEN /\ SubSeq(inflight', 1, Len(inflight)) = inflight
                    /\ Len(inflight') = Len(inflight) + 1
                    /\ console2'.ran
                    /\ Last(inflight') = [adUnit   |-> s,
                                           newPrice |-> console2'.optimalBid]
               ELSE inflight' = inflight
      ]_vars

\* A request has failed or been answered, and a later bid was handled and
\* priced all the same.
C7_Witness ==
    \E s \in DOMAIN observed :
        /\ Len(inflight) < RequestsSent(s)
        /\ console2.level = "log"
        /\ "ran" \in DOMAIN console2
        /\ console2.ran
        /\ console2.request.adUnit = s

\* ------------------------------------------------------------------------
\* C8.  Reading a slot's samples has no side effect: adjustPricingRule and
\* getPeakHourMultiplier work on copies, so after a bidResponse event the
\* stored table (keys, samples, insertion order) is what the recording step
\* left, and running the adjustment again on it, at the same clock reading,
\* leaves the table alone once more and gives the same prices.
\* ------------------------------------------------------------------------
C8_AdjustLeavesHistoryAlone ==
    [][\A s \in Slots : BidStepFor(s) =>
          /\ bidHistory' = recordBid(bidHistory, s, Last(observed'[s]).cpm, now)
          /\ adjustPricingRule(bidHistory', s, now')
                = [bidHistory |-> bidHistory', out |-> lastAdjust']
      ]_vars

\* An adjustment has run on samples that are not stored in ascending order.
C8_Witness ==
    /\ lastAdjust.ran
    /\ \E i \in 1..(Len(bidHistory[lastAdjust.update.adUnitCode]) - 1) :
          bidHistory[lastAdjust.update.adUnitCode][i].cpm
              > bidHistory[lastAdjust.update.adUnitCode][i + 1].cpm

\* ------------------------------------------------------------------------
\* C9.  First script, adjustment with at least 5 samples: the hb_pb targeting
\* value is the target price at the nearest cent when the target price is
\* below 5, at the nearest 5 cents from 5 up to 10, at the nearest 10 cents
\* from 10 on; the price handed to updateGoogleAdManagerPricing for the same
\* slot is the target price itself, not rounded.
\* ------------------------------------------------------------------------
C9_TargetingIsQuantized ==
    lastAdjust.ran =>
        LET s      == lastAdjust.update.adUnitCode
            target == RatMul(RatAdd(lastAdjust.requiredBid, <<1, 100>>),
                             RatAdd(<<1, 1>>, lastAdjust.multiplier))
            shown  == ParseFixed(targeting[s].hb_pb)
            per    == IF Below(target, <<5, 1>>) THEN 100
                      ELSE IF Below(target, <<10, 1>>) THEN 20
                      ELSE 10
        IN  /\ targeting[s].hb_pb = lastAdjust.hb_pb
            /\ MultipleOf(shown, per)
            /\ Nearest(shown, target, per)
            /\ Decimals(targeting[s].hb_pb) = (IF per = 10 THEN 1 ELSE 2)
            /\ lastAdjust.update.newBidPrice = target

\* A target price between 5 and 10 that is not a multiple of 5 cents: the
\* targeting value and the price handed off differ.
C9_Witness ==
    /\ lastAdjust.ran
    /\ Len(observed[lastAdjust.update.adUnitCode]) = 5
    /\ AtMost(<<5, 1>>, lastAdjust.optimalBid)
    /\ Below(lastAdjust.optimalBid, <<10, 1>>)
    /\ ~SameNumber(ParseFixed(targeting[lastAdjust.update.adUnitCode].hb_pb),
                   lastAdjust.update.newBidPrice)

\* ------------------------------------------------------------------------
\* C10.  A step that is not a bidResponse event for slot b (a bid for another
\* slot, a clock tick, a settled request) leaves b's stored samples exactly
\* as they were, and no key is ever removed: samples of b that are 24 hours
\* old or older stay until the next bid for b.
\* ------------------------------------------------------------------------
C10_OtherSlotsUntouched ==
    [][/\ DOMAIN bidHistory \subseteq DOMAIN bidHistory'
       /\ \A b \in DOMAIN bidHistory :
             ~BidStepFor(b) => bidHistory'[b] = bidHistory[b]
      ]_vars

\* Slot A has just taken a bid while slot B still stores a sample that is a
\* full retention window old.
C10_Witness ==
    /\ {"A", "B"} \subseteq DOMAIN bidHistory
    /\ LastBidAt("A") = now
    /\ \E i \in DOMAIN bidHistory["B"] :
          now - bidHistory["B"][i].timestamp >= RetentionWindow


====
